---- MODULE Spec2Model ----
(***************************************************************************)
(* Model of the live-transcript session state of the TranscriptionWindows  *)
(* component (client/src/components/TranscriptionWindows.tsx): the bounded *)
(* segment history, the partial utterance, the command-triggered summary   *)
(* and the LLM output ledger, together with the text helpers it uses.      *)
(*                                                                         *)
(* A text is a sequence of one-character strings.  The alphabet is ASCII   *)
(* letters, digits, blank/tab/newline, ASCII punctuation and "|", which    *)
(* stands for the Devanagari danda of the sentence splitter's character    *)
(* class.  The alphabet has no combining marks.                            *)
(***************************************************************************)
EXTENDS Integers, Sequences, FiniteSets, TLC

VARIABLES
  segments,        \* useState<TranscriptSegment[]>: the segment sequence
  partialUser,     \* useState(''): the partial human utterance
  summaryState,    \* useState<SummaryState | null>
  llmOutputs,      \* useState<LLMOutput[]>: the LLM ledger
  segmentsRef,     \* useRef: the snapshot updateSummary reads
  pending,         \* state updates queued by setState calls, not yet rendered
  transportState,  \* value of usePipecatClientTransportState in the store
  renderedTransport, \* transportState as seen by the last render
  effectDue,       \* the effect on transportState is scheduled
  now,             \* Date.now()
  idCounter,       \* number of ids handed out by createId('user' | 'bot')
  llmCounter,      \* number of ids handed out by createId('llm')
  evCount,         \* number of transcript and text events handled so far
  ticks,           \* number of clock steps so far
  transitions,     \* number of transport state changes so far
  lastEvent,       \* the event handled last (history variable)
  dropped,         \* what existed when the transport last disconnected
  fillStep,        \* clock period of the event stream (window specification)
  sumIn,           \* input of buildSummary (summarizer specification)
  sumOut           \* its result, or NoValue before it ran

vars == <<segments, partialUser, summaryState, llmOutputs, segmentsRef,
          pending, transportState, renderedTransport, effectDue, now,
          idCounter, llmCounter, evCount, ticks, transitions, lastEvent,
          dropped, fillStep, sumIn, sumOut>>

NoValue == [none |-> TRUE]

-----------------------------------------------------------------------------
(* Characters and the regular-expression classes the code uses.            *)

LowerLetters ==
  <<"a","b","c","d","e","f","g","h","i","j","k","l","m",
    "n","o","p","q","r","s","t","u","v","w","x","y","z">>

UpperLetters ==
  <<"A","B","C","D","E","F","G","H","I","J","K","L","M",
    "N","O","P","Q","R","S","T","U","V","W","X","Y","Z">>

\* \p{L}
IsLetter(c) == \E i \in 1..26 : c = LowerLetters[i] \/ c = UpperLetters[i]

\* \p{N}
IsNumber(c) == c \in {"0","1","2","3","4","5","6","7","8","9"}

\* \s
IsSpace(c) == c \in {" ", "\t", "\n"}

\* [.!?|] of splitSentences
IsTerminal(c) == c \in {".", "!", "?", "|"}

LowerChar(c) ==
  IF \E i \in 1..26 : c = UpperLetters[i]
  THEN LowerLetters[CHOOSE i \in 1..26 : c = UpperLetters[i]]
  ELSE c

toLowerCase(s) == [i \in 1..Len(s) |-> LowerChar(s[i])]

RECURSIVE trimStart(_)
trimStart(s) ==
  IF s # <<>> /\ IsSpace(Head(s)) THEN trimStart(Tail(s)) ELSE s

RECURSIVE trimEnd(_)
trimEnd(s) ==
  IF s # <<>> /\ IsSpace(s[Len(s)])
  THEN trimEnd(SubSeq(s, 1, Len(s) - 1))
  ELSE s

\* String.prototype.trim
trim(s) == trimEnd(trimStart(s))

\* .replace(/[^\p{L}\p{N}\s]/gu, ' ')
replaceNonWord(s) ==
  [i \in 1..Len(s) |->
     IF IsLetter(s[i]) \/ IsNumber(s[i]) \/ IsSpace(s[i]) THEN s[i] ELSE " "]

\* .replace(/\s+/g, ' ')
RECURSIVE collapseSpaces(_)
collapseSpaces(s) ==
  IF s = <<>> THEN <<>>
  ELSE IF IsSpace(Head(s)) THEN <<" ">> \o collapseSpaces(trimStart(s))
  ELSE <<Head(s)>> \o collapseSpaces(Tail(s))

\* sanitizeForCommand without the replacement of punctuation (a faulty
\* variant, used to test that C8 depends on the normalization)
sanitizeKeepPunctuation(value) ==
  trim(collapseSpaces(toLowerCase(value)))

sanitizeForCommand(value) ==
  trim(collapseSpaces(replaceNonWord(toLowerCase(value))))

SUMMARY_COMMANDS ==
  { <<"s","u","m","m","a","r","y">>, <<"s","u","m","m","a","r","i","z","e">> }

\* [\p{L}\p{M}'] : the characters that continue a token
IsWordChar(c) == IsLetter(c) \/ c = "'"

RECURSIVE takeWordChars(_)
takeWordChars(s) ==
  IF s # <<>> /\ IsWordChar(Head(s))
  THEN <<Head(s)>> \o takeWordChars(Tail(s))
  ELSE <<>>

\* .match(/\p{L}[\p{L}\p{M}']*/gu) ?? []
RECURSIVE matchWords(_)
matchWords(s) ==
  IF s = <<>> THEN <<>>
  ELSE IF IsLetter(Head(s))
       THEN LET w == <<Head(s)>> \o takeWordChars(Tail(s))
            IN  <<w>> \o matchWords(SubSeq(s, Len(w) + 1, Len(s)))
       ELSE matchWords(Tail(s))

tokenize(sentence) == matchWords(toLowerCase(sentence))

\* .split(/(?<=[.!?|])\s+/u): cut at every whitespace run that directly
\* follows a terminal mark; cur is the piece being collected.
RECURSIVE splitPieces(_, _)
splitPieces(s, cur) ==
  IF s = <<>> THEN <<cur>>
  ELSE IF IsSpace(Head(s)) /\ cur # <<>> /\ IsTerminal(cur[Len(cur)])
       THEN <<cur>> \o splitPieces(trimStart(s), <<>>)
       ELSE splitPieces(Tail(s), Append(cur, Head(s)))

nonEmptyText(s) == s # <<>>

splitSentences(text) ==
  LET pieces == splitPieces(text, <<>>)
      trimmed == [i \in 1..Len(pieces) |-> trim(pieces[i])]
  IN  SelectSeq(trimmed, nonEmptyText)

STOPWORDS == {
  <<"a">>, <<"a","b","o","u","t">>, <<"a","b","o","v","e">>,
  <<"a","f","t","e","r">>, <<"a","g","a","i","n">>,
  <<"a","g","a","i","n","s","t">>, <<"a","l","l">>, <<"a","m">>, <<"a","n">>,
  <<"a","n","d">>, <<"a","n","y">>, <<"a","r","e">>, <<"a","s">>,
  <<"a","t">>, <<"b","e">>, <<"b","e","c","a","u","s","e">>,
  <<"b","e","e","n">>, <<"b","e","f","o","r","e">>, <<"b","e","i","n","g">>,
  <<"b","e","l","o","w">>, <<"b","e","t","w","e","e","n">>,
  <<"b","o","t","h">>, <<"b","u","t">>, <<"b","y">>, <<"c","o","u","l","d">>,
  <<"d","i","d">>, <<"d","o">>, <<"d","o","e","s">>, <<"d","o","i","n","g">>,
  <<"d","o","w","n">>, <<"d","u","r","i","n","g">>, <<"e","a","c","h">>,
  <<"f","e","w">>, <<"f","o","r">>, <<"f","r","o","m">>,
  <<"f","u","r","t","h","e","r">>, <<"h","a","d">>, <<"h","a","s">>,
  <<"h","a","v","e">>, <<"h","a","v","i","n","g">>, <<"h","e">>,
  <<"h","e","r">>, <<"h","e","r","e">>, <<"h","e","r","s">>,
  <<"h","e","r","s","e","l","f">>, <<"h","i","m">>,
  <<"h","i","m","s","e","l","f">>, <<"h","i","s">>, <<"h","o","w">>, <<"i">>,
  <<"i","f">>, <<"i","n">>, <<"i","n","t","o">>, <<"i","s">>, <<"i","t">>,
  <<"i","t","s">>, <<"i","t","s","e","l","f">>, <<"j","u","s","t">>,
  <<"l","l">>, <<"m","e">>, <<"m","o","r","e">>, <<"m","o","s","t">>,
  <<"m","y">>, <<"m","y","s","e","l","f">>, <<"n","o">>, <<"n","o","r">>,
  <<"n","o","t">>, <<"n","o","w">>, <<"o","f">>, <<"o","f","f">>,
  <<"o","n">>, <<"o","n","c","e">>, <<"o","n","l","y">>, <<"o","r">>,
  <<"o","t","h","e","r">>, <<"o","u","r">>, <<"o","u","r","s">>,
  <<"o","u","r","s","e","l","v","e","s">>, <<"o","u","t">>,
  <<"o","v","e","r">>, <<"o","w","n">>, <<"s","a","m","e">>, <<"s","h","e">>,
  <<"s","h","o","u","l","d">>, <<"s","o">>, <<"s","o","m","e">>,
  <<"s","u","c","h">>, <<"t","h","a","n">>, <<"t","h","a","t">>,
  <<"t","h","e">>, <<"t","h","e","i","r">>, <<"t","h","e","i","r","s">>,
  <<"t","h","e","m">>, <<"t","h","e","m","s","e","l","v","e","s">>,
  <<"t","h","e","n">>, <<"t","h","e","r","e">>, <<"t","h","e","s","e">>,
  <<"t","h","e","y">>, <<"t","h","i","s">>, <<"t","h","o","s","e">>,
  <<"t","h","r","o","u","g","h">>, <<"t","o">>, <<"t","o","o">>,
  <<"u","n","d","e","r">>, <<"u","n","t","i","l">>, <<"u","p">>,
  <<"v","e","r","y">>, <<"w","a","s">>, <<"w","e">>, <<"w","e","r","e">>,
  <<"w","h","a","t">>, <<"w","h","e","n">>, <<"w","h","e","r","e">>,
  <<"w","h","i","c","h">>, <<"w","h","i","l","e">>, <<"w","h","o">>,
  <<"w","h","o","m">>, <<"w","h","y">>, <<"w","i","l","l">>,
  <<"w","i","t","h">>, <<"w","o","u","l","d">>, <<"y","o","u">>,
  <<"y","o","u","r">>, <<"y","o","u","r","s">>,
  <<"y","o","u","r","s","e","l","f">>,
  <<"y","o","u","r","s","e","l","v","e","s">>, <<"h","a","i">>,
  <<"h","a","i","n">>, <<"m","a","i">>, <<"m","a","i","n">>,
  <<"m","e","i","n">>, <<"m","e","r","a">>, <<"m","e","r","i">>,
  <<"m","e","r","e">>, <<"t","h","a">>, <<"t","h","i">>, <<"h","u","n">>,
  <<"h","o","o","n">>, <<"t","u","m">>, <<"w","o","h">>, <<"k","y","a">>,
  <<"k","y","u">>, <<"k","y","u","n">>, <<"h","a","i","i">>, <<"k","e">>,
  <<"k","i">>, <<"k","a">>, <<"k","o">>, <<"s","e">>, <<"p","a","r">>,
  <<"a","u","r">>, <<"y","a">>, <<"p","a","r","a","n","t","u">>,
  <<"l","e","k","i","n">>, <<"y","a","h","a">>, <<"w","a","h","a">>,
  <<"h","a","i",".">>, <<"h","a","i","n",".">>,
  <<"s","u","m","m","a","r","y">> }

-----------------------------------------------------------------------------
(* buildSummary: the extractive summarizer.                                *)

speakerLabel(segment) ==
  IF segment.speaker = "user" THEN <<"Y","o","u">> ELSE <<"B","o","t">>

\* `${label}: ${segment.text}`.trim()
segmentLine(segment) ==
  trim(speakerLabel(segment) \o <<":", " ">> \o segment.text)

\* Array.prototype.join
RECURSIVE joinWith(_, _)
joinWith(lines, sep) ==
  IF lines = <<>> THEN <<>>
  ELSE IF Len(lines) = 1 THEN lines[1]
  ELSE lines[1] \o sep \o joinWith(Tail(lines), sep)

combinedText(segs) ==
  joinWith([i \in 1..Len(segs) |-> segmentLine(segs[i])], <<" ">>)

notStopword(word) == word \notin STOPWORDS

\* the tokens of a sentence that are counted and scored
contentWords(sentence) == SelectSeq(tokenize(sentence), notStopword)

RECURSIVE allContentWords(_)
allContentWords(sentences) ==
  IF sentences = <<>> THEN <<>>
  ELSE contentWords(Head(sentences)) \o allContentWords(Tail(sentences))

RECURSIVE countWord(_, _)
countWord(word, words) ==
  IF words = <<>> THEN 0
  ELSE (IF Head(words) = word THEN 1 ELSE 0) + countWord(word, Tail(words))

\* the frequency map, as a lookup: frequency.get(word) ?? 0
frequency(word, sentences) == countWord(word, allContentWords(sentences))

RECURSIVE sumFrequencies(_, _)
sumFrequencies(words, sentences) ==
  IF words = <<>> THEN 0
  ELSE frequency(Head(words), sentences)
         + sumFrequencies(Tail(words), sentences)

sentenceScore(sentence, sentences) ==
  sumFrequencies(contentWords(sentence), sentences)

scored(sentences) ==
  [i \in 1..Len(sentences) |->
     [sentence |-> trim(sentences[i]),
      score    |-> sentenceScore(sentences[i], sentences),
      index    |-> i - 1]]

hasSentence(item) == Len(item.sentence) > 0

\* the comparator of sorted: score descending, then index ascending
rankBefore(a, b) ==
  IF b.score = a.score THEN a.index < b.index ELSE a.score > b.score

\* the sentences left unranked (a faulty variant, used to test that C17
\* depends on the ranking)
unranked(items) == items

sortByRank(items) == SortSeq(items, rankBefore)

indexBefore(a, b) == a.index < b.index

\* the chosen sentences left in rank order (a faulty variant, used to test
\* that C10 depends on the final sort)
keepOrder(items) == items

\* .sort((a, b) => a.index - b.index)
sortByIndex(items) == SortSeq(items, indexBefore)

minOf(a, b) == IF a <= b THEN a ELSE b

\* Array.from(new Set(words)): first occurrences, in order
RECURSIVE uniqueWords(_, _)
uniqueWords(words, seen) ==
  IF words = <<>> THEN <<>>
  ELSE IF Head(words) \in seen THEN uniqueWords(Tail(words), seen)
  ELSE <<Head(words)>> \o uniqueWords(Tail(words), seen \cup {Head(words)})

KeyTopicsPrefix == <<"K","e","y"," ","t","o","p","i","c","s",":"," ">>

keyTopics(combined) ==
  LET unique == uniqueWords(contentWords(combined), {})
  IN  IF unique # <<>>
      THEN << KeyTopicsPrefix
              \o joinWith(SubSeq(unique, 1, minOf(5, Len(unique))),
                          <<",", " ">>) >>
      ELSE <<>>

\* the selection without the fall-back to the first sentences when no
\* sentence scores above zero (a faulty variant, used to test that C24
\* depends on the fall-back)
selectDigestPositiveOnly(nonEmpty) ==
  LET sorted == sortByRank(nonEmpty)
      top == SubSeq(sorted, 1, minOf(3, Len(sorted)))
      hasPositiveScore == \E k \in 1..Len(top) : top[k].score > 0
      chosen == IF hasPositiveScore THEN top ELSE <<>>
      ordered == sortByIndex(chosen)
  IN  SelectSeq([k \in 1..Len(ordered) |-> trim(ordered[k].sentence)],
                nonEmptyText)

selectDigest(nonEmpty) ==
  LET sorted == sortByRank(nonEmpty)
      top == SubSeq(sorted, 1, minOf(3, Len(sorted)))
      hasPositiveScore == \E k \in 1..Len(top) : top[k].score > 0
      chosen == IF hasPositiveScore THEN top
                ELSE SubSeq(nonEmpty, 1, Len(top))
      ordered == sortByIndex(chosen)
  IN  SelectSeq([k \in 1..Len(ordered) |-> trim(ordered[k].sentence)],
                nonEmptyText)

buildSummary(segs) ==
  IF segs = <<>> THEN <<>>
  ELSE LET combined == combinedText(segs)
           sentences == splitSentences(combined)
       IN  IF sentences = <<>> THEN keyTopics(combined)
           ELSE LET nonEmpty == SelectSeq(scored(sentences), hasSentence)
                IN  IF nonEmpty = <<>> THEN <<>> ELSE selectDigest(nonEmpty)

-----------------------------------------------------------------------------
(* Program constants.                                                      *)

SUMMARY_WINDOW_MS == 10000
HISTORY_WINDOW_MS == 5 * 60 * 1000
MAX_SEGMENTS == 200
MAX_LLM_ENTRIES == 100

NoRecentItems ==
  << <<"N","o"," ","r","e","c","e","n","t"," ","c","o","n","v","e","r","s",
       "a","t","i","o","n"," ","t","o"," ","s","u","m","m","a","r","i","z",
       "e",".">> >>

NoKeyMomentsItems ==
  << <<"N","o"," ","k","e","y"," ","m","o","m","e","n","t","s"," ","d","e",
       "t","e","c","t","e","d"," ","i","n"," ","t","h","e"," ","l","a","s",
       "t"," ","1","0"," ","s","e","c","o","n","d","s",".">> >>

-----------------------------------------------------------------------------
(* The state updaters.                                                     *)

\* Array.prototype.slice(-n)
lastN(items, n) ==
  IF Len(items) <= n THEN items
  ELSE SubSeq(items, Len(items) - n + 1, Len(items))

\* no age filter (a faulty variant, used to test that C4 depends on it)
keepAll(items, T) == items

\* .filter((item) => now - item.timestamp <= HISTORY_WINDOW_MS)
dropStale(items, T) ==
  LET fresh(item) == T - item.timestamp <= HISTORY_WINDOW_MS
  IN  SelectSeq(items, fresh)

\* .slice(-(MAX_SEGMENTS + 1)) and .slice(0, MAX_SEGMENTS) (faulty variants,
\* used to test that C1 and C5 depend on the truncation)
capSegmentsOffByOne(items) == lastN(items, MAX_SEGMENTS + 1)

capSegmentsHead(items) ==
  IF Len(items) <= MAX_SEGMENTS THEN items
  ELSE SubSeq(items, 1, MAX_SEGMENTS)

\* .slice(-MAX_SEGMENTS)
capSegments(items) == lastN(items, MAX_SEGMENTS)

\* last && last.speaker === normalized.speaker && last.text === normalized.text
repeatsLast(current, normalized) ==
  /\ current # <<>>
  /\ current[Len(current)].speaker = normalized.speaker
  /\ current[Len(current)].text = normalized.text

\* the updater comparing the untrimmed text with the last segment, and the
\* updater storing the untrimmed segment (faulty variants, used to test
\* that C6 and C7 depend on the trimming)
pushSegmentUpdaterRaw(current, segment) ==
  LET trimmedText == trim(segment.text)
      normalized == [segment EXCEPT !.text = trimmedText]
  IN  IF trimmedText = <<>> THEN current
      ELSE IF repeatsLast(current, segment) THEN current
      ELSE capSegments(dropStale(Append(current, normalized),
                                 normalized.timestamp))

pushSegmentUpdaterUntrimmed(current, segment) ==
  LET trimmedText == trim(segment.text)
      normalized == [segment EXCEPT !.text = trimmedText]
  IN  IF trimmedText = <<>> THEN current
      ELSE IF repeatsLast(current, normalized) THEN current
      ELSE capSegments(dropStale(Append(current, segment),
                                 segment.timestamp))

\* the updater putting the new segment first (a faulty variant, used to
\* test that C19 depends on the order of insertion)
pushSegmentUpdaterPrepend(current, segment) ==
  LET trimmedText == trim(segment.text)
      normalized == [segment EXCEPT !.text = trimmedText]
  IN  IF trimmedText = <<>> THEN current
      ELSE IF repeatsLast(current, normalized) THEN current
      ELSE capSegments(dropStale(<<normalized>> \o current,
                                 normalized.timestamp))

\* the function pushSegment hands to setSegments
pushSegmentUpdater(current, segment) ==
  LET trimmedText == trim(segment.text)
      normalized == [segment EXCEPT !.text = trimmedText]
  IN  IF trimmedText = <<>> THEN current
      ELSE IF repeatsLast(current, normalized) THEN current
      ELSE capSegments(dropStale(Append(current, normalized),
                                 normalized.timestamp))

\* .slice(-MAX_LLM_ENTRIES)
capLlmOutputs(items) == lastN(items, MAX_LLM_ENTRIES)

\* the ledger updater storing the untrimmed text (a faulty variant, used to
\* test that C14 depends on the ledger entry being the trimmed text)
pushLlmOutputUpdaterUntrimmed(current, text, timestamp, id) ==
  LET trimmed == trim(text)
  IN  IF trimmed = <<>> THEN current
      ELSE IF current # <<>> /\ current[Len(current)].text = trimmed
           THEN current
      ELSE capLlmOutputs(Append(current,
             [id |-> id, text |-> text, timestamp |-> timestamp]))

\* the ledger updater without the test against the last entry (a faulty
\* variant, used to test that C22 depends on it)
pushLlmOutputUpdaterNoDedup(current, text, timestamp, id) ==
  LET trimmed == trim(text)
  IN  IF trimmed = <<>> THEN current
      ELSE capLlmOutputs(Append(current,
             [id |-> id, text |-> trimmed, timestamp |-> timestamp]))

\* the function pushLlmOutput hands to setLlmOutputs; id is createId('llm')
pushLlmOutputUpdater(current, text, timestamp, id) ==
  LET trimmed == trim(text)
  IN  IF trimmed = <<>> THEN current
      ELSE IF current # <<>> /\ current[Len(current)].text = trimmed
           THEN current
      ELSE capLlmOutputs(Append(current,
             [id |-> id, text |-> trimmed, timestamp |-> timestamp]))

\* One queued setState call.  eager marks an updater that already ran when
\* it was queued (no update was pending), so the render reuses its result.
Update(op, arg, eager) == [op |-> op, arg |-> arg, eager |-> eager]

\* The hooks' values while a render works through the queue.
applyUpdate(st, u) ==
  CASE u.op = "pushSegment" ->
         LET next == pushSegmentUpdater(st.segments, u.arg)
         IN  [st EXCEPT !.segments = next,
                        !.segmentsRef = IF u.eager THEN @ ELSE next]
    [] u.op = "setSegments" -> [st EXCEPT !.segments = u.arg]
    [] u.op = "setPartialUser" -> [st EXCEPT !.partialUser = u.arg]
    [] u.op = "setSummaryState" -> [st EXCEPT !.summaryState = u.arg]
    [] u.op = "pushLlmOutput" ->
         LET next == pushLlmOutputUpdater(st.llmOutputs, u.arg.text,
                                          u.arg.timestamp, st.llmCounter + 1)
         IN  [st EXCEPT !.llmOutputs = next,
                        !.llmCounter =
                          IF next = st.llmOutputs THEN @ ELSE @ + 1]
    [] u.op = "setLlmOutputs" -> [st EXCEPT !.llmOutputs = u.arg]

RECURSIVE applyUpdates(_, _)
applyUpdates(st, queue) ==
  IF queue = <<>> THEN st
  ELSE applyUpdates(applyUpdate(st, Head(queue)), Tail(queue))

hookState ==
  [segments |-> segments, partialUser |-> partialUser,
   summaryState |-> summaryState, llmOutputs |-> llmOutputs,
   segmentsRef |-> segmentsRef, llmCounter |-> llmCounter]

\* the hooks' values once every queued update has been rendered
settled == applyUpdates(hookState, pending)

-----------------------------------------------------------------------------
(* Handlers.                                                               *)

\* data.timestamp is absent (undefined or ''), a string Date.parse rejects,
\* or a date string whose Date.parse value is ms.
AbsentStamp == [kind |-> "absent", ms |-> 0]
InvalidStamp == [kind |-> "invalid", ms |-> 0]
IsoStamp(ms) == [kind |-> "iso", ms |-> ms]

\* toTimestamp without the Number.isNaN test (a faulty variant, used to
\* test that C21 depends on the fallback for unparseable values)
toTimestampUnchecked(value, t) ==
  IF value.kind = "absent" THEN t ELSE value.ms

toTimestamp(value, t) ==
  IF value.kind = "absent" THEN t
  ELSE IF value.kind = "invalid" THEN t
  ELSE value.ms

\* the filter without the test of isCommand (a faulty variant, used to
\* test that C9 depends on it)
isRecentAnyKind(segment, cutoff) ==
  /\ segment.timestamp >= cutoff
  /\ Len(trim(segment.text)) > 0

\* the filter of updateSummary
isRecent(segment, cutoff) ==
  /\ segment.timestamp >= cutoff
  /\ Len(trim(segment.text)) > 0
  /\ ~segment.isCommand

\* updateSummary without its two placeholders (a faulty variant, used to
\* test that C18 depends on them)
updateSummaryBare(snapshot, t) ==
  LET cutoff == t - SUMMARY_WINDOW_MS
      inWindow(segment) == isRecent(segment, cutoff)
      recent == SelectSeq(snapshot, inWindow)
      bullets == buildSummary(recent)
  IN  [items |-> bullets, updatedAt |-> t, coverage |-> Len(recent),
       isEmpty |-> (bullets = <<>>)]

\* the SummaryState updateSummary stores, computed from the snapshot it
\* reads at time t
updateSummary(snapshot, t) ==
  LET cutoff == t - SUMMARY_WINDOW_MS
      inWindow(segment) == isRecent(segment, cutoff)
      recent == SelectSeq(snapshot, inWindow)
      bullets == buildSummary(recent)
  IN  IF recent = <<>>
      THEN [items |-> NoRecentItems, updatedAt |-> t,
            coverage |-> 0, isEmpty |-> TRUE]
      ELSE [items |-> IF bullets # <<>> THEN bullets ELSE NoKeyMomentsItems,
            updatedAt |-> t,
            coverage |-> Len(recent),
            isEmpty |-> (bullets = <<>>)]

\* The record of a handled event: its inputs, the id and clock reading the
\* handler used, the snapshot segmentsRef held when the handler returned, and
\* the session as it stood (every queued update counted) when it was called.
Event(kind, text, final, stamp, id, snapshot) ==
  [kind |-> kind, text |-> text, final |-> final, stamp |-> stamp,
   id |-> id, at |-> now, snapshot |-> snapshot,
   before |-> [segments |-> settled.segments,
               llmOutputs |-> settled.llmOutputs,
               summaryState |-> settled.summaryState]]

NoEvent ==
  [kind |-> "none", text |-> <<>>, final |-> FALSE, stamp |-> AbsentStamp,
   id |-> 0, at |-> 0, snapshot |-> <<>>,
   before |-> [segments |-> <<>>, llmOutputs |-> <<>>,
               summaryState |-> NoValue]]

\* pushSegment: setSegments(updater).  With eager the updater runs at once
\* on the rendered state (and is dropped when it returns that state);
\* otherwise it waits in the queue for the next render.
refAfterPush(segment, eager) ==
  IF eager THEN pushSegmentUpdater(segments, segment) ELSE segmentsRef

queueAfterPush(segment, eager) ==
  IF eager /\ pushSegmentUpdater(segments, segment) = segments
  THEN pending
  ELSE Append(pending, Update("pushSegment", segment, eager))

\* handleUserTranscript without setPartialUser('') after a final (a faulty
\* variant, used to test that C20 depends on it)
HandleUserTranscriptKeepsPartial(text, final, stamp, eager) ==
  /\ eager => pending = <<>>
  /\ evCount' = evCount + 1
  /\ IF text = <<>>
     THEN /\ pending' = Append(pending, Update("setPartialUser", <<>>, FALSE))
          /\ UNCHANGED <<segmentsRef, idCounter>>
     ELSE IF final
     THEN LET timestamp == toTimestamp(stamp, now)
              normalized == sanitizeForCommand(text)
              isSummaryCommand == normalized \in SUMMARY_COMMANDS
              segment == [id |-> idCounter + 1, speaker |-> "user",
                          text |-> text, timestamp |-> timestamp,
                          isCommand |-> isSummaryCommand]
              ref == refAfterPush(segment, eager)
              q1 == queueAfterPush(segment, eager)
          IN  /\ segmentsRef' = ref
              /\ idCounter' = idCounter + 1
              /\ pending' =
                   IF isSummaryCommand
                   THEN Append(q1, Update("setSummaryState",
                                          updateSummary(ref, now), FALSE))
                   ELSE q1
     ELSE /\ pending' = Append(pending, Update("setPartialUser", text, FALSE))
          /\ UNCHANGED <<segmentsRef, idCounter>>
  /\ lastEvent' = Event("user", text, final, stamp, idCounter + 1,
                        segmentsRef')
  /\ UNCHANGED <<segments, partialUser, summaryState, llmOutputs,
                 transportState, renderedTransport, effectDue, now, ticks,
                 transitions, llmCounter,
                 dropped, fillStep, sumIn, sumOut>>

\* handleUserTranscript calling updateSummary after every final (a faulty
\* variant, used to test that C23 depends on the command test)
HandleUserTranscriptAlwaysSummarizes(text, final, stamp, eager) ==
  /\ eager => pending = <<>>
  /\ evCount' = evCount + 1
  /\ IF text = <<>>
     THEN /\ pending' = Append(pending, Update("setPartialUser", <<>>, FALSE))
          /\ UNCHANGED <<segmentsRef, idCounter>>
     ELSE IF final
     THEN LET timestamp == toTimestamp(stamp, now)
              normalized == sanitizeForCommand(text)
              isSummaryCommand == normalized \in SUMMARY_COMMANDS
              segment == [id |-> idCounter + 1, speaker |-> "user",
                          text |-> text, timestamp |-> timestamp,
                          isCommand |-> isSummaryCommand]
              ref == refAfterPush(segment, eager)
              q1 == Append(queueAfterPush(segment, eager),
                           Update("setPartialUser", <<>>, FALSE))
          IN  /\ segmentsRef' = ref
              /\ idCounter' = idCounter + 1
              /\ pending' = Append(q1, Update("setSummaryState",
                                             updateSummary(ref, now), FALSE))
     ELSE /\ pending' = Append(pending, Update("setPartialUser", text, FALSE))
          /\ UNCHANGED <<segmentsRef, idCounter>>
  /\ lastEvent' = Event("user", text, final, stamp, idCounter + 1,
                        segmentsRef')
  /\ UNCHANGED <<segments, partialUser, summaryState, llmOutputs,
                 transportState, renderedTransport, effectDue, now, ticks,
                 transitions, llmCounter,
                 dropped, fillStep, sumIn, sumOut>>

HandleUserTranscript(text, final, stamp, eager) ==
  /\ eager => pending = <<>>
  /\ evCount' = evCount + 1
  /\ IF text = <<>>
     THEN /\ pending' = Append(pending, Update("setPartialUser", <<>>, FALSE))
          /\ UNCHANGED <<segmentsRef, idCounter>>
     ELSE IF final
     THEN LET timestamp == toTimestamp(stamp, now)
              normalized == sanitizeForCommand(text)
              isSummaryCommand == normalized \in SUMMARY_COMMANDS
              segment == [id |-> idCounter + 1, speaker |-> "user",
                          text |-> text, timestamp |-> timestamp,
                          isCommand |-> isSummaryCommand]
              ref == refAfterPush(segment, eager)
              q1 == Append(queueAfterPush(segment, eager),
                           Update("setPartialUser", <<>>, FALSE))
          IN  /\ segmentsRef' = ref
              /\ idCounter' = idCounter + 1
              /\ pending' =
                   IF isSummaryCommand
                   THEN Append(q1, Update("setSummaryState",
                                          updateSummary(ref, now), FALSE))
                   ELSE q1
     ELSE /\ pending' = Append(pending, Update("setPartialUser", text, FALSE))
          /\ UNCHANGED <<segmentsRef, idCounter>>
  /\ lastEvent' = Event("user", text, final, stamp, idCounter + 1,
                        segmentsRef')
  /\ UNCHANGED <<segments, partialUser, summaryState, llmOutputs,
                 transportState, renderedTransport, effectDue, now, ticks,
                 transitions, llmCounter,
                 dropped, fillStep, sumIn, sumOut>>

handleBotText(kind, text, source, eager) ==
  /\ eager => pending = <<>>
  /\ evCount' = evCount + 1
  /\ IF text = <<>>
     THEN UNCHANGED <<pending, segmentsRef, idCounter>>
     ELSE LET timestamp == now
              segment == [id |-> idCounter + 1, speaker |-> "bot",
                          text |-> text, timestamp |-> timestamp,
                          isCommand |-> FALSE]
              q1 == queueAfterPush(segment, eager)
          IN  /\ segmentsRef' = refAfterPush(segment, eager)
              /\ idCounter' = idCounter + 1
              /\ pending' =
                   IF source = "llm"
                   THEN Append(q1, Update("pushLlmOutput",
                                 [text |-> text, timestamp |-> timestamp],
                                 FALSE))
                   ELSE q1
  /\ lastEvent' = Event(kind, text, TRUE, AbsentStamp, idCounter + 1,
                        segmentsRef')
  /\ UNCHANGED <<segments, partialUser, summaryState, llmOutputs,
                 transportState, renderedTransport, effectDue, now, ticks,
                 transitions, llmCounter,
                 dropped, fillStep, sumIn, sumOut>>

HandleBotTranscript(text, eager) ==
  handleBotText("botTranscript", text, "transcript", eager)

HandleBotLlmText(text, eager) ==
  handleBotText("botLlm", text, "llm", eager)

\* resetTranscription without setLlmOutputs([]) (a faulty variant, used to
\* test that C12 depends on all four calls)
ResetUpdatesKeepLedger ==
  << [op |-> "setSegments", arg |-> <<>>, eager |-> FALSE],
     [op |-> "setPartialUser", arg |-> <<>>, eager |-> FALSE],
     [op |-> "setSummaryState", arg |-> NoValue, eager |-> FALSE] >>

\* the four setState calls of resetTranscription
ResetUpdates ==
  << Update("setSegments", <<>>, FALSE),
     Update("setPartialUser", <<>>, FALSE),
     Update("setSummaryState", NoValue, FALSE),
     Update("setLlmOutputs", <<>>, FALSE) >>

\* the effect on [resetTranscription, transportState], run after the render
\* that saw transportState change
RunEffect ==
  /\ effectDue
  /\ effectDue' = FALSE
  /\ IF renderedTransport = "disconnected"
     THEN /\ segmentsRef' = <<>>
          /\ pending' = pending \o ResetUpdates
          /\ lastEvent' = Event("reset", <<>>, FALSE, AbsentStamp, 0, <<>>)
     ELSE UNCHANGED <<segmentsRef, pending, lastEvent>>
  /\ UNCHANGED <<segments, partialUser, summaryState, llmOutputs,
                 transportState, renderedTransport, now, ticks, transitions,
                 idCounter, evCount, llmCounter,
                 dropped, fillStep, sumIn, sumOut>>

\* a render of the component: every queued update is applied in order, and
\* the transport effect is scheduled when transportState changed
Render ==
  /\ ~effectDue
  /\ pending # <<>> \/ transportState # renderedTransport
  /\ segments' = settled.segments
  /\ partialUser' = settled.partialUser
  /\ summaryState' = settled.summaryState
  /\ llmOutputs' = settled.llmOutputs
  /\ segmentsRef' = settled.segmentsRef
  /\ llmCounter' = settled.llmCounter
  /\ pending' = <<>>
  /\ renderedTransport' = transportState
  /\ effectDue' = (transportState # renderedTransport)
  /\ UNCHANGED <<transportState, now, ticks, transitions, idCounter, evCount,
                 lastEvent,
                 dropped, fillStep, sumIn, sumOut>>

\* the transport store changes state
TransportChange(to) ==
  /\ transportState # to
  /\ transportState' = to
  /\ transitions' = transitions + 1
  /\ dropped' = IF to = "disconnected"
                THEN [id |-> idCounter, llm |-> settled.llmCounter,
                      events |-> evCount]
                ELSE dropped
  /\ UNCHANGED <<segments, partialUser, summaryState, llmOutputs, segmentsRef,
                 pending, renderedTransport, effectDue, now, ticks, idCounter,
                 evCount, lastEvent, llmCounter,
                 fillStep, sumIn, sumOut>>

\* the clock advances
Tick(d) ==
  /\ now' = now + d
  /\ ticks' = ticks + 1
  /\ UNCHANGED <<segments, partialUser, summaryState, llmOutputs, segmentsRef,
                 pending, transportState, renderedTransport, effectDue,
                 transitions, idCounter, evCount, lastEvent, llmCounter,
                 dropped, fillStep, sumIn, sumOut>>

-----------------------------------------------------------------------------
(* Bounds and inputs of the session specification.                         *)

MaxEvents == 3
MaxTicks == 1
MaxPending == 6
StartTime == 1000000

EmptyText == <<>>
BlankText == <<" ">>
PaddedText == <<" ","N","o"," ","s","u","m","m","a","r","y",".">>
CommandText == <<"S","u","m","m","a","r","y",".">>

EventTexts == {EmptyText, BlankText, PaddedText, CommandText}

InterimTexts == {EmptyText, PaddedText}

\* the clock passes the summary window or the history window between events
TickSteps == {SUMMARY_WINDOW_MS + 1, HISTORY_WINDOW_MS + 1}

\* a parseable data.timestamp lags the client clock by one of these
StampLags == {HISTORY_WINDOW_MS + 1}

Stamps ==
  {AbsentStamp, InvalidStamp} \cup {IsoStamp(now - lag) : lag \in StampLags}

\* the component after it mounted: the transport effect ran once and its
\* four updates await the first re-render
Mounted ==
  /\ segments = <<>>
  /\ partialUser = <<>>
  /\ summaryState = NoValue
  /\ llmOutputs = <<>>
  /\ segmentsRef = <<>>
  /\ pending = ResetUpdates
  /\ transportState = "disconnected"
  /\ renderedTransport = "disconnected"
  /\ effectDue = FALSE
  /\ now = StartTime
  /\ idCounter = 0
  /\ llmCounter = 0
  /\ evCount = 0
  /\ ticks = 0
  /\ transitions = 0
  /\ lastEvent = NoEvent
  /\ dropped = [id |-> 0, llm |-> 0, events |-> 0]

Init ==
  /\ Mounted
  /\ fillStep = 0
  /\ sumIn = <<>>
  /\ sumOut = NoValue

\* events arrive while the transport is up; MaxPending bounds how many
\* updates queue up before a render
CanHandle ==
  /\ transportState = "connected"
  /\ evCount < MaxEvents
  /\ Len(pending) + 3 <= MaxPending

UserFinal ==
  \E text \in EventTexts, stamp \in Stamps, eager \in BOOLEAN :
    CanHandle /\ HandleUserTranscript(text, TRUE, stamp, eager)

UserInterim ==
  \E text \in InterimTexts :
    CanHandle /\ HandleUserTranscript(text, FALSE, AbsentStamp, FALSE)

BotTranscript ==
  \E text \in EventTexts, eager \in BOOLEAN :
    CanHandle /\ HandleBotTranscript(text, eager)

BotLlmText ==
  \E text \in EventTexts, eager \in BOOLEAN :
    CanHandle /\ HandleBotLlmText(text, eager)

Connect == TransportChange("connected")

\* a render follows a setState call within milliseconds, so the long clock
\* steps happen while nothing is queued
Idle ==
  /\ pending = <<>>
  /\ ~effectDue
  /\ transportState = renderedTransport

ClockStep ==
  \E d \in TickSteps : ticks < MaxTicks /\ Idle /\ Tick(d)

Next ==
  \/ UserFinal
  \/ UserInterim
  \/ BotTranscript
  \/ BotLlmText
  \/ Connect
  \/ Render
  \/ RunEffect
  \/ ClockStep

Spec == Init /\ [][Next]_vars

-----------------------------------------------------------------------------
(* The window specification: a long alternating stream of human finals and *)
(* assistant LLM texts, one every fillStep milliseconds, that fills the    *)
(* segment sequence and the ledger past their bounds.                      *)

FillEvents == 204
MaxTransitions == 3

FillSteps == {1000, 1500, 2000}

FillTextA == <<"h","i">>
FillTextB == <<"y","o">>

FillInit ==
  /\ Mounted
  /\ fillStep \in FillSteps
  /\ sumIn = <<>>
  /\ sumOut = NoValue

FillText == IF evCount % 4 < 2 THEN FillTextA ELSE FillTextB

FillStamp == IF evCount % 4 = 0 THEN IsoStamp(now) ELSE AbsentStamp

CanFill ==
  /\ transportState = "connected"
  /\ evCount < FillEvents
  /\ ticks = evCount
  /\ Len(pending) + 3 <= MaxPending

FillUserFinal ==
  \E eager \in BOOLEAN :
    /\ CanFill
    /\ evCount % 2 = 0
    /\ HandleUserTranscript(FillText, TRUE, FillStamp, eager)

FillBotLlmText ==
  \E eager \in BOOLEAN :
    /\ CanFill
    /\ evCount % 2 = 1
    /\ HandleBotLlmText(FillText, eager)

FillTick == ticks < evCount /\ Tick(fillStep)

FillConnect ==
  transitions < MaxTransitions /\ TransportChange("connected")

\* the transport drops once the segment sequence is full
FillDisconnect ==
  /\ transitions < MaxTransitions
  /\ Len(segments) = MAX_SEGMENTS
  /\ TransportChange("disconnected")

FillNext ==
  \/ FillUserFinal
  \/ FillBotLlmText
  \/ FillTick
  \/ FillConnect
  \/ FillDisconnect
  \/ Render
  \/ RunEffect

SpecFill == FillInit /\ [][FillNext]_vars

-----------------------------------------------------------------------------
(* The summarizer specification: buildSummary applied to every short       *)
(* sequence of stored segments over a few texts.                           *)

MaxSumSegments == 2

SumTexts ==
  { <<"D","o","g","s"," ","b","a","r","k",".">>,
    <<"C","a","t","s"," ","n","a","p","."," ","C","a","t","s"," ",
      "p","u","r","r",".">>,
    <<"H","i","!"," ","D","o","g","s"," ","r","u","n","?"," ","Y",
      "e","s",".">>,
    <<"o","k">>,
    <<"t","h","e"," ","a","n","d">>,
    <<"G","o","."," ","B","i","r","d","s"," ","f","l","y",".">> }

SumSegments ==
  { [id |-> 0, speaker |-> speaker, text |-> text, timestamp |-> StartTime,
     isCommand |-> FALSE] : speaker \in {"user", "bot"}, text \in SumTexts }

SumInputs ==
  UNION { [1..n -> SumSegments] : n \in 0..MaxSumSegments }

SumInit ==
  /\ Mounted
  /\ fillStep = 0
  /\ sumIn \in SumInputs
  /\ sumOut = NoValue

RunBuildSummary ==
  /\ sumOut = NoValue
  /\ sumOut' = [items |-> buildSummary(sumIn)]
  /\ UNCHANGED <<segments, partialUser, summaryState, llmOutputs, segmentsRef,
                 pending, transportState, renderedTransport, effectDue, now,
                 idCounter, llmCounter, evCount, ticks, transitions, lastEvent,
                 dropped, fillStep, sumIn>>

\* the clock readings updateSummary is run at: with the segments inside
\* the summary window, and with the window already past them
SumTimes == {StartTime, StartTime + SUMMARY_WINDOW_MS + 1}

RunUpdateSummary ==
  /\ summaryState = NoValue
  /\ \E t \in SumTimes : summaryState' = updateSummary(sumIn, t)
  /\ UNCHANGED <<segments, partialUser, llmOutputs, segmentsRef, pending,
                 transportState, renderedTransport, effectDue, now,
                 idCounter, llmCounter, evCount, ticks, transitions, lastEvent,
                 dropped, fillStep, sumIn, sumOut>>

SumNext ==
  \/ RunBuildSummary
  \/ RunUpdateSummary

SpecSum == SumInit /\ [][SumNext]_vars

-----------------------------------------------------------------------------
(* The reset specification: a short session in which the transport drops   *)
(* and comes back, events arriving whenever the transport is up, whether   *)
(* or not the component has rendered since.                                *)

MaxResetEvents == 3
MaxResetPending == 10

CanReceive ==
  /\ transportState = "connected"
  /\ evCount < MaxResetEvents
  /\ Len(pending) + 3 <= MaxResetPending

ResetUserFinal ==
  \E eager \in BOOLEAN :
    CanReceive /\ HandleUserTranscript(CommandText, TRUE, AbsentStamp, eager)

ResetUserInterim ==
  CanReceive /\ HandleUserTranscript(PaddedText, FALSE, AbsentStamp, FALSE)

ResetBotLlmText ==
  \E eager \in BOOLEAN : CanReceive /\ HandleBotLlmText(PaddedText, eager)

ResetConnect ==
  transitions < MaxTransitions /\ TransportChange("connected")

ResetDisconnect ==
  transitions < MaxTransitions /\ TransportChange("disconnected")

ResetNext ==
  \/ ResetUserFinal
  \/ ResetUserInterim
  \/ ResetBotLlmText
  \/ ResetConnect
  \/ ResetDisconnect
  \/ Render
  \/ RunEffect

SpecReset == Init /\ [][ResetNext]_vars

-----------------------------------------------------------------------------
(* Properties.                                                             *)

Last(s) == s[Len(s)]

\* the segment sequence just before and just after the k-th queued update
segmentsBefore(k) ==
  applyUpdates(hookState, SubSeq(pending, 1, k - 1)).segments

segmentsAfter(k) ==
  applyUpdates(hookState, SubSeq(pending, 1, k)).segments

IsPush(k) == pending[k].op = "pushSegment"

\* the k-th queued update is a pushSegment that adds its segment
Appends(k) == IsPush(k) /\ segmentsAfter(k) # segmentsBefore(k)

IsBlank(text) == text \in {EmptyText, BlankText}

\* C1: in every reachable state the segment sequence has at most
\* MAX_SEGMENTS (200) entries and the LLM ledger at most MAX_LLM_ENTRIES
\* (100), whatever events and disconnections came before.
C1_LengthBounds ==
  /\ Len(segments) <= MAX_SEGMENTS
  /\ Len(llmOutputs) <= MAX_LLM_ENTRIES

\* both sequences are full and have already evicted their oldest entries
C1_Witness ==
  /\ Len(segments) = MAX_SEGMENTS
  /\ Len(llmOutputs) = MAX_LLM_ENTRIES
  /\ segments[1].id > 1
  /\ llmOutputs[1].id > 1

\* C2: in every reachable state no two adjacent segments have the same
\* speaker and the same text, whatever timestamps the events carried.
C2_NoAdjacentDuplicates ==
  \A i \in 1..(Len(segments) - 1) :
    ~ /\ segments[i].speaker = segments[i + 1].speaker
      /\ segments[i].text = segments[i + 1].text

\* C3: in every reachable state the timestamps of the segment sequence are
\* non-decreasing in insertion order.
C3_TimestampsNonDecreasing ==
  \A i \in 1..(Len(segments) - 1) :
    segments[i].timestamp <= segments[i + 1].timestamp

\* C4: every append that adds a segment with timestamp T leaves that segment
\* last and leaves no segment with T - t > HISTORY_WINDOW_MS in the sequence;
\* the rendered sequence never holds a segment that much older than its last.
C4_AppendDropsStale ==
  /\ \A k \in 1..Len(pending) :
       Appends(k) =>
         LET after == segmentsAfter(k)
             T == pending[k].arg.timestamp
         IN  /\ after # <<>>
             /\ Last(after).id = pending[k].arg.id
             /\ Last(after).timestamp = T
             /\ \A i \in 1..Len(after) :
                  T - after[i].timestamp <= HISTORY_WINDOW_MS
  /\ \A i \in 1..Len(segments) :
       Last(segments).timestamp - segments[i].timestamp <= HISTORY_WINDOW_MS

\* an append that evicted at least one stale segment
C4_Witness ==
  \E k \in 1..Len(pending) :
    /\ Appends(k)
    /\ Len(segmentsAfter(k)) <= Len(segmentsBefore(k))
    /\ \E i \in 1..Len(segmentsBefore(k)) :
         pending[k].arg.timestamp - segmentsBefore(k)[i].timestamp
           > HISTORY_WINDOW_MS

\* C5: after N > MAX_SEGMENTS pairwise non-duplicate appends in increasing
\* timestamp order within one history window, the sequence holds exactly the
\* MAX_SEGMENTS most recently appended segments, in insertion order.
C5_KeepsMostRecent ==
  ( /\ transitions = 1
    /\ pending = <<>>
    /\ evCount > MAX_SEGMENTS
    /\ (evCount - 1) * fillStep <= HISTORY_WINDOW_MS )
  => /\ Len(segments) = MAX_SEGMENTS
     /\ \A i \in 1..MAX_SEGMENTS :
          /\ segments[i].id = lastEvent.id - (MAX_SEGMENTS - i)
          /\ segments[i].timestamp
               = lastEvent.at - (MAX_SEGMENTS - i) * fillStep

\* more than MAX_SEGMENTS + 1 appends inside one history window, all rendered
C5_Witness ==
  /\ transitions = 1
  /\ pending = <<>>
  /\ evCount > MAX_SEGMENTS + 1
  /\ (evCount - 1) * fillStep <= HISTORY_WINDOW_MS
  /\ Len(segments) = MAX_SEGMENTS
  /\ segments[1].id = evCount - MAX_SEGMENTS + 1

\* C6: a pushSegment whose speaker and trimmed text equal those of the
\* current last segment leaves the segment sequence exactly as it was: no
\* new entry, no change to the last one, no eviction, no truncation.
C6_DuplicateIsNoOp ==
  \A k \in 1..Len(pending) :
    ( /\ IsPush(k)
      /\ segmentsBefore(k) # <<>>
      /\ Last(segmentsBefore(k)).speaker = pending[k].arg.speaker
      /\ Last(segmentsBefore(k)).text = trim(pending[k].arg.text) )
    => segmentsAfter(k) = segmentsBefore(k)

\* the same (speaker, text) pushed a second time, with a later timestamp,
\* onto a sequence that holds only the first
C6_Witness ==
  \E k \in 1..Len(pending) :
    /\ IsPush(k)
    /\ Len(segmentsBefore(k)) = 1
    /\ Last(segmentsBefore(k)).speaker = pending[k].arg.speaker
    /\ Last(segmentsBefore(k)).text = trim(pending[k].arg.text)
    /\ Last(segmentsBefore(k)).timestamp < pending[k].arg.timestamp
    /\ Len(segmentsAfter(k)) = 1

TrimmedNonEmpty(text) ==
  /\ text # <<>>
  /\ ~IsSpace(text[1])
  /\ ~IsSpace(text[Len(text)])

C7_TextsTrimmed ==
  /\ \A i \in 1..Len(segments) : TrimmedNonEmpty(segments[i].text)
  /\ \A j \in 1..Len(llmOutputs) : TrimmedNonEmpty(llmOutputs[j].text)

\* the last step of the environment was a transcript or text event
EventHandled == lastEvent.kind \in {"user", "botTranscript", "botLlm"}

\* C7: every segment and every ledger entry has non-empty text without
\* leading or trailing whitespace, and an event whose text is empty or
\* whitespace-only changes neither the segment sequence nor the ledger.
C7_NoBlankText ==
  /\ C7_TextsTrimmed
  /\ (EventHandled /\ IsBlank(lastEvent.text))
     => /\ settled.segments = lastEvent.before.segments
        /\ settled.llmOutputs = lastEvent.before.llmOutputs

\* a whitespace-only LLM text was handled and rendered after padded content
C7_Witness ==
  /\ lastEvent.kind = "botLlm"
  /\ lastEvent.text = BlankText
  /\ pending = <<>>
  /\ \E i \in 1..Len(segments) : segments[i].text = trim(PaddedText)
  /\ \E j \in 1..Len(llmOutputs) : llmOutputs[j].text = trim(PaddedText)

\* the event handled last was a final human transcript with one of the texts
UserFinalHandled(texts) ==
  /\ lastEvent.kind = "user"
  /\ lastEvent.final
  /\ lastEvent.text \in texts

\* the segment sequence before the event ended with the same human text
RepeatsLastSegment ==
  /\ lastEvent.before.segments # <<>>
  /\ Last(lastEvent.before.segments).speaker = "user"
  /\ Last(lastEvent.before.segments).text = trim(lastEvent.text)

C8_SummaryStored ==
  /\ settled.summaryState # NoValue
  /\ settled.summaryState.updatedAt = lastEvent.at

C8_PlainFinal ==
  UserFinalHandled(EventTexts \ {CommandText})
  => /\ settled.summaryState = lastEvent.before.summaryState
     /\ \A i \in 1..Len(settled.segments) :
          settled.segments[i].id = lastEvent.id
            => ~settled.segments[i].isCommand

\* C8 as claimed: handling a final human transcript whose normalized text is
\* a summary command appends a segment with the original text and
\* isCommand = TRUE and stores a summary whose updatedAt is the time of the
\* append; any other final sets isCommand = FALSE and stores no summary.
C8_CommandAppendsAndSummarizes ==
  /\ UserFinalHandled({CommandText})
     => /\ settled.segments # <<>>
        /\ Last(settled.segments).id = lastEvent.id
        /\ Last(settled.segments).text = CommandText
        /\ Last(settled.segments).isCommand
        /\ C8_SummaryStored
  /\ C8_PlainFinal

\* C8 as amended: the command final appends that segment unless it repeats
\* the last segment (same speaker, same trimmed text), in which case the
\* sequence stays as it was; in both cases the sequence ends with a human
\* segment with that text and isCommand = TRUE, and a summary is stored
\* whose updatedAt is the clock reading of the handler.  Any other final
\* sets isCommand = FALSE and stores no summary.
C8_CommandSummarizes ==
  /\ UserFinalHandled({CommandText})
     => /\ settled.segments # <<>>
        /\ Last(settled.segments).speaker = "user"
        /\ Last(settled.segments).text = trim(lastEvent.text)
        /\ Last(settled.segments).isCommand
        /\ IF RepeatsLastSegment
           THEN settled.segments = lastEvent.before.segments
           ELSE /\ Last(settled.segments).id = lastEvent.id
                /\ Last(settled.segments).timestamp
                     = toTimestamp(lastEvent.stamp, lastEvent.at)
        /\ C8_SummaryStored
  /\ C8_PlainFinal

\* a command final was handled and rendered: its segment is last and the
\* summary carries the handler's clock reading
C8_Witness ==
  /\ UserFinalHandled({CommandText})
  /\ pending = <<>>
  /\ segments # <<>>
  /\ Last(segments).id = lastEvent.id
  /\ Last(segments).isCommand
  /\ summaryState # NoValue
  /\ summaryState.updatedAt = lastEvent.at
  /\ lastEvent.at > StartTime

\* C9: when updateSummary runs and the snapshot it reads holds no segment
\* with isCommand = FALSE and timestamp >= now - SUMMARY_WINDOW_MS, the
\* summary it stores has coverage 0, isEmpty = TRUE and exactly the one
\* placeholder item.
C9_EmptyWindowPlaceholder ==
  ( /\ UserFinalHandled({CommandText})
    /\ \A i \in 1..Len(lastEvent.snapshot) :
         \/ lastEvent.snapshot[i].isCommand
         \/ lastEvent.snapshot[i].timestamp < lastEvent.at - SUMMARY_WINDOW_MS )
  => /\ settled.summaryState # NoValue
     /\ settled.summaryState.updatedAt = lastEvent.at
     /\ settled.summaryState.coverage = 0
     /\ settled.summaryState.isEmpty
     /\ settled.summaryState.items = NoRecentItems
     /\ Len(settled.summaryState.items) = 1

\* a summary with coverage 0 was stored while the snapshot held an older
\* segment that is not a command
C9_Witness ==
  /\ UserFinalHandled({CommandText})
  /\ pending = <<>>
  /\ summaryState # NoValue
  /\ summaryState.updatedAt = lastEvent.at
  /\ summaryState.coverage = 0
  /\ \E i \in 1..Len(lastEvent.snapshot) : ~lastEvent.snapshot[i].isCommand

RECURSIVE IsSubsequence(_, _)
IsSubsequence(a, b) ==
  IF a = <<>> THEN TRUE
  ELSE IF b = <<>> THEN FALSE
  ELSE IF Head(a) = Head(b) THEN IsSubsequence(Tail(a), Tail(b))
  ELSE IsSubsequence(a, Tail(b))

\* C10: for every non-empty input the digest of buildSummary lists sentences
\* of the input in strictly increasing sentence index, whatever their rank.
C10_DigestInOriginalOrder ==
  (sumOut # NoValue /\ sumIn # <<>>)
  => IsSubsequence(sumOut.items, splitSentences(combinedText(sumIn)))

\* a digest of three sentences whose best-ranked sentence is not the first
C10_Witness ==
  /\ sumOut # NoValue
  /\ Len(sumOut.items) = 3
  /\ LET ranked == sortByRank(scored(splitSentences(combinedText(sumIn))))
     IN  /\ ranked[1].score > 0
         /\ ranked[1].sentence # sumOut.items[1]

-----------------------------------------------------------------------------
(* Properties of the summarizer, the reset and the handlers.               *)

\* the non-stopword tokens of the texts of a window of segments
RECURSIVE windowWords(_)
windowWords(segs) ==
  IF segs = <<>> THEN <<>>
  ELSE contentWords(Head(segs).text) \o windowWords(Tail(segs))

\* every non-stopword token of the window occurs exactly once in it
WordsUnique(segs) ==
  LET words == windowWords(segs)
  IN  \A i \in 1..Len(words) : countWord(words[i], words) = 1

firstSentences(segs) ==
  LET sentences == splitSentences(combinedText(segs))
  IN  SubSeq(sentences, 1, minOf(3, Len(sentences)))

\* C11: over segments whose non-stopword tokens each occur exactly once in
\* the whole window, the digest is the first min(3, sentence count)
\* sentences in original order, and it is not empty.
C11_UniqueWordsGiveFirstSentences ==
  (sumOut # NoValue /\ sumIn # <<>> /\ WordsUnique(sumIn))
  => /\ sumOut.items = firstSentences(sumIn)
     /\ sumOut.items # <<>>

\* the session is empty: no segment, no partial utterance, no summary, no
\* ledger entry
Cleared(session) ==
  /\ session.segments = <<>>
  /\ session.partialUser = <<>>
  /\ session.summaryState = NoValue
  /\ session.llmOutputs = <<>>

ResetRan == lastEvent.kind = "reset"

\* C12: right after resetTranscription the segment sequence, the partial
\* utterance, the summary and the ledger are all empty or absent together
\* (in the session as the next render shows it, and in every rendered state
\* until another event is handled); a reset of an already empty session
\* leaves it as it was.
C12_ResetClearsAll ==
  ResetRan
  => /\ Cleared(settled)
     /\ pending = <<>> => Cleared(hookState)
     /\ (lastEvent.before.segments = <<>>
           /\ lastEvent.before.llmOutputs = <<>>
           /\ lastEvent.before.summaryState = NoValue)
        => /\ settled.segments = lastEvent.before.segments
           /\ settled.llmOutputs = lastEvent.before.llmOutputs
           /\ settled.summaryState = lastEvent.before.summaryState

\* a reset of a session that held a segment, a ledger entry and a summary
\* has been rendered
C12_Witness ==
  /\ ResetRan
  /\ pending = <<>>
  /\ lastEvent.before.segments # <<>>
  /\ lastEvent.before.llmOutputs # <<>>
  /\ lastEvent.before.summaryState # NoValue
  /\ segments = <<>>

\* an event was handled after the transport last entered disconnected, and
\* every update has been rendered
LaterEventRendered ==
  /\ transitions >= 2
  /\ evCount > dropped.events
  /\ Idle

\* C13: once an event has been handled after the transport entered the
\* disconnected state, nothing created before the disconnection is visible:
\* no segment and no ledger entry of the earlier session is in the rendered
\* state, also when the transport left the disconnected state again before
\* the reset effect ran.
C13_ResetBeforeLaterEvents ==
  LaterEventRendered
  => /\ \A i \in 1..Len(segments) : segments[i].id > dropped.id
     /\ \A j \in 1..Len(llmOutputs) : llmOutputs[j].id > dropped.llm

\* the event handled last was an assistant text of that kind, not blank
BotTextHandled(kind) ==
  /\ lastEvent.kind = kind
  /\ ~IsBlank(lastEvent.text)

EndsWithBotText ==
  /\ settled.segments # <<>>
  /\ Last(settled.segments).speaker = "bot"
  /\ Last(settled.segments).text = trim(lastEvent.text)

\* C14: after an assistant text with non-blank text and source llm the last
\* segment is an assistant segment with the trimmed text and the last ledger
\* entry has the trimmed text; after one with source transcript the sequence
\* ends with that assistant text and the ledger is as it was.
C14_LlmTextInBothTranscriptInOne ==
  /\ BotTextHandled("botLlm")
     => /\ EndsWithBotText
        /\ settled.llmOutputs # <<>>
        /\ Last(settled.llmOutputs).text = trim(lastEvent.text)
  /\ BotTextHandled("botTranscript")
     => /\ EndsWithBotText
        /\ settled.llmOutputs = lastEvent.before.llmOutputs

\* a padded LLM text was handled and rendered after another segment: it is
\* the newest segment and the newest ledger entry
C14_Witness ==
  /\ BotTextHandled("botLlm")
  /\ lastEvent.text = PaddedText
  /\ pending = <<>>
  /\ Len(segments) >= 2
  /\ Last(segments).id = lastEvent.id
  /\ Last(segments).speaker = "bot"
  /\ llmOutputs # <<>>
  /\ Last(llmOutputs).text = trim(PaddedText)
  /\ Last(llmOutputs).timestamp = lastEvent.at

\* the segments of a sequence a summary generated at time t has to cover
recentSegments(items, t) ==
  LET inWindow(segment) ==
        /\ segment.timestamp >= t - SUMMARY_WINDOW_MS
        /\ ~segment.isCommand
  IN  SelectSeq(items, inWindow)

\* C15: every summary that updateSummary stores has coverage equal to the
\* number of segments of the sequence with timestamp >= now -
\* SUMMARY_WINDOW_MS and isCommand = FALSE, and updatedAt equal to that now.
C15_CoverageCountsRecent ==
  UserFinalHandled({CommandText})
  => /\ settled.summaryState # NoValue
     /\ settled.summaryState.updatedAt = lastEvent.at
     /\ settled.summaryState.coverage
          = Len(recentSegments(settled.segments, lastEvent.at))

hasId(items, id) == \E i \in 1..Len(items) : items[i].id = id

\* C16: the snapshot a command's summary is computed from holds every
\* segment that earlier events appended and that is still in the sequence,
\* also when those events were handled before any render.
C16_SnapshotHoldsEarlierAppends ==
  UserFinalHandled({CommandText})
  => \A i \in 1..Len(settled.segments) :
       settled.segments[i].id < lastEvent.id
         => hasId(lastEvent.snapshot, settled.segments[i].id)

\* C9, read on the segment sequence: when updateSummary runs and the
\* sequence holds no segment with isCommand = FALSE and timestamp >= now -
\* SUMMARY_WINDOW_MS, the stored summary has coverage 0, isEmpty = TRUE and
\* exactly the one placeholder item.
C9_EmptySequencePlaceholder ==
  ( /\ UserFinalHandled({CommandText})
    /\ recentSegments(settled.segments, lastEvent.at) = <<>> )
  => /\ settled.summaryState # NoValue
     /\ settled.summaryState.coverage = 0
     /\ settled.summaryState.isEmpty
     /\ settled.summaryState.items = NoRecentItems

\* the scored sentences of a summarizer input
scoredSentences(segs) == scored(splitSentences(combinedText(segs)))

\* the number of sentences that rank before the k-th one: a higher score,
\* or the same score and a smaller index
outranking(sc, k) ==
  Cardinality({j \in 1..Len(sc) :
                 \/ sc[j].score > sc[k].score
                 \/ sc[j].score = sc[k].score /\ sc[j].index < sc[k].index})

\* the sentences among the three best-ranked, in original order
bestRanked(sc) ==
  LET chosen(item) == outranking(sc, item.index + 1) < 3
      kept == SelectSeq(sc, chosen)
  IN  [k \in 1..Len(kept) |-> kept[k].sentence]

somePositive(sc) == \E k \in 1..Len(sc) : sc[k].score > 0

\* C17: for a non-empty input in which some sentence has a positive score
\* the digest is exactly the min(3, n) sentences ranking highest by score
\* descending, then index ascending.
C17_DigestIsBestRanked ==
  (sumOut # NoValue /\ sumIn # <<>> /\ somePositive(scoredSentences(sumIn)))
  => /\ sumOut.items = bestRanked(scoredSentences(sumIn))
     /\ Len(sumOut.items) = minOf(3, Len(scoredSentences(sumIn)))

\* a digest that leaves out an early sentence in favour of a later one with
\* a higher score
C17_Witness ==
  /\ sumOut # NoValue
  /\ Len(sumOut.items) = 3
  /\ LET sc == scoredSentences(sumIn)
     IN  /\ Len(sc) >= 4
         /\ \E k \in 4..Len(sc) :
              /\ sc[k].sentence = sumOut.items[3]
              /\ sc[k].score > sc[3].score
              /\ sc[3].sentence \notin
                   {sumOut.items[1], sumOut.items[2], sumOut.items[3]}

WellFormed(summary) ==
  \/ summary = NoValue
  \/ /\ Len(summary.items) \in 1..3
     /\ \A k \in 1..Len(summary.items) : summary.items[k] # <<>>

\* C18: in every reachable state the summary is absent or has between one
\* and three items, each a non-empty string.
C18_SummaryWellFormed ==
  /\ WellFormed(summaryState)
  /\ WellFormed(settled.summaryState)

\* a summary of three sentences, and nothing left out of the window
C18_Witness ==
  /\ summaryState # NoValue
  /\ Len(summaryState.items) = 3
  /\ summaryState.coverage = Len(sumIn)
  /\ ~summaryState.isEmpty

Front(s) == SubSeq(s, 1, Len(s) - 1)

\* C19: every append leaves the surviving earlier segments as they were and
\* in the same order, with the new segment last: the sequence after it is a
\* subsequence of the sequence before it followed by the new segment.
C19_AppendKeepsEarlierSegments ==
  \A k \in 1..Len(pending) :
    Appends(k) =>
      LET before == segmentsBefore(k)
          after == segmentsAfter(k)
      IN  /\ after # <<>>
          /\ Last(after) =
               [pending[k].arg EXCEPT !.text = trim(pending[k].arg.text)]
          /\ IsSubsequence(Front(after), before)

\* an append after which one earlier segment survives and another is gone
C19_Witness ==
  \E k \in 1..Len(pending) :
    /\ Appends(k)
    /\ Len(segmentsBefore(k)) >= 2
    /\ Len(segmentsAfter(k)) = Len(segmentsBefore(k))
    /\ segmentsAfter(k)[1] \in
         {segmentsBefore(k)[i] : i \in 1..Len(segmentsBefore(k))}

UserEventHandled == lastEvent.kind = "user"

\* C20: a non-final human transcript with non-empty text makes that text
\* the partial utterance and leaves the segment sequence, the summary and
\* the ledger as they were; a human transcript with empty text or with
\* final = TRUE leaves the partial utterance empty.
C20_PartialUtterance ==
  /\ (UserEventHandled /\ ~lastEvent.final /\ lastEvent.text # <<>>)
     => /\ settled.partialUser = lastEvent.text
        /\ settled.segments = lastEvent.before.segments
        /\ settled.summaryState = lastEvent.before.summaryState
        /\ settled.llmOutputs = lastEvent.before.llmOutputs
  /\ (UserEventHandled /\ (lastEvent.final \/ lastEvent.text = <<>>))
     => settled.partialUser = <<>>

\* a partial utterance shown beside stored segments and a summary
C20_Witness ==
  /\ UserEventHandled
  /\ ~lastEvent.final
  /\ pending = <<>>
  /\ partialUser = PaddedText
  /\ segments # <<>>
  /\ summaryState # NoValue

-----------------------------------------------------------------------------
(* Properties of timestamps, the ledger, the stored summary and the        *)
(* snapshot.                                                               *)

\* the event handled last was a final human transcript that pushSegment
\* neither ignores as blank nor drops as a repeat of the last segment
FinalToAppend ==
  /\ lastEvent.kind = "user"
  /\ lastEvent.final
  /\ ~IsBlank(lastEvent.text)
  /\ ~RepeatsLastSegment

\* C21: a final human transcript whose timestamp is absent or unparseable
\* is appended with the current time as its timestamp, one with a parseable
\* timestamp with the parsed value; the handler always completes.
C21_TimestampResolved ==
  FinalToAppend
  => /\ settled.segments # <<>>
     /\ Last(settled.segments).id = lastEvent.id
     /\ Last(settled.segments).timestamp =
          IF lastEvent.stamp.kind = "iso" THEN lastEvent.stamp.ms
          ELSE lastEvent.at

\* a final with a parseable timestamp behind the clock has been appended
\* after a human segment stamped with the clock reading
C21_Witness ==
  /\ FinalToAppend
  /\ lastEvent.stamp.kind = "iso"
  /\ pending = <<>>
  /\ Len(segments) >= 2
  /\ Last(segments).id = lastEvent.id
  /\ Last(segments).timestamp = lastEvent.stamp.ms
  /\ Last(segments).timestamp < now
  /\ segments[1].speaker = "user"
  /\ segments[1].timestamp >= StartTime

NoAdjacentRepeat(ledger) ==
  \A j \in 1..(Len(ledger) - 1) : ledger[j].text # ledger[j + 1].text

IsPrefix(a, b) == Len(a) <= Len(b) /\ SubSeq(b, 1, Len(a)) = a

\* the LLM text handled last repeats the last segment, an assistant segment
\* with the same trimmed text, but not the last ledger entry
DroppedByTranscriptOnly ==
  /\ BotTextHandled("botLlm")
  /\ lastEvent.before.segments # <<>>
  /\ Last(lastEvent.before.segments).speaker = "bot"
  /\ Last(lastEvent.before.segments).text = trim(lastEvent.text)
  /\ \/ lastEvent.before.llmOutputs = <<>>
     \/ Last(lastEvent.before.llmOutputs).text # trim(lastEvent.text)

\* C22: no two adjacent ledger entries have the same text; an LLM text that
\* pushSegment drops as a repeat of the last segment is still appended to
\* the ledger when it differs from the ledger's last entry; and no event,
\* whatever segments it evicts, removes a ledger entry.
C22_LedgerDedupIsItsOwn ==
  /\ NoAdjacentRepeat(llmOutputs)
  /\ NoAdjacentRepeat(settled.llmOutputs)
  /\ DroppedByTranscriptOnly
     => /\ settled.segments = lastEvent.before.segments
        /\ Len(settled.llmOutputs) = Len(lastEvent.before.llmOutputs) + 1
        /\ Last(settled.llmOutputs).text = trim(lastEvent.text)
        /\ Last(settled.llmOutputs).timestamp = lastEvent.at
  /\ EventHandled
     => IsPrefix(lastEvent.before.llmOutputs, settled.llmOutputs)

\* an LLM text that repeats the last segment was handled and rendered: the
\* sequence kept its length and the ledger gained the entry
C22_Witness ==
  /\ DroppedByTranscriptOnly
  /\ pending = <<>>
  /\ segments = lastEvent.before.segments
  /\ llmOutputs # <<>>
  /\ Last(llmOutputs).text = trim(lastEvent.text)
  /\ Last(llmOutputs).timestamp = lastEvent.at

\* the event handled last is a final human transcript holding a command
CommandFinalHandled ==
  /\ lastEvent.kind = "user"
  /\ lastEvent.final
  /\ lastEvent.text # <<>>
  /\ sanitizeForCommand(lastEvent.text) \in SUMMARY_COMMANDS

\* C23: the stored summary changes only when a final human command
\* transcript is handled (or when reset runs): with the queued updates
\* applied it is the one that command produced, and after an assistant
\* event, a non-final human transcript or a non-command human final it is
\* what it was before the event, whatever the event evicted and however
\* the clock moved since; before any event it is absent.
C23_SummaryChangesOnlyOnCommand ==
  /\ ~EventHandled => settled.summaryState = NoValue
  /\ (EventHandled /\ ~CommandFinalHandled)
     => settled.summaryState = lastEvent.before.summaryState
  /\ CommandFinalHandled
     => settled.summaryState = updateSummary(lastEvent.snapshot, lastEvent.at)

\* a summary covering a segment survives, rendered, a later append that
\* evicted that segment
C23_Witness ==
  /\ EventHandled
  /\ ~CommandFinalHandled
  /\ pending = <<>>
  /\ summaryState # NoValue
  /\ summaryState.coverage > 0
  /\ summaryState = lastEvent.before.summaryState
  /\ segments # <<>>
  /\ Last(segments).id = lastEvent.id
  /\ \A i \in 1..Len(segments) : segments[i].timestamp > summaryState.updatedAt

\* C24: a summary is marked empty exactly when its coverage is 0: when the
\* summary window holds a segment that is not a command, buildSummary
\* returns at least one item, so the "no key moments" placeholder is never
\* stored.
C24_EmptyIffNoCoverage ==
  /\ summaryState # NoValue
     => /\ summaryState.isEmpty <=> (summaryState.coverage = 0)
        /\ summaryState.items # NoKeyMomentsItems
        /\ summaryState.coverage = 0 => summaryState.items = NoRecentItems
        /\ summaryState.coverage > 0
           => summaryState.items # NoRecentItems
  /\ (sumOut # NoValue /\ sumIn # <<>>) => sumOut.items # <<>>

\* a summary of a window whose only sentence scores zero: every word of the
\* line is a stopword, and the line is still the item
C24_Witness ==
  /\ summaryState # NoValue
  /\ summaryState.coverage = 1
  /\ ~summaryState.isEmpty
  /\ Len(sumIn) = 1
  /\ contentWords(segmentLine(sumIn[1])) = <<>>
  /\ summaryState.items = <<segmentLine(sumIn[1])>>

\* C25: whenever no update is queued, the snapshot updateSummary reads
\* (segmentsRef) is the stored segment sequence; so a command handled when
\* the sequence is empty (after a reset, say) summarizes no earlier
\* segment: its snapshot holds at most the command itself.
C25_SnapshotIsSequence ==
  /\ pending = <<>> => segmentsRef = segments
  /\ (CommandFinalHandled /\ lastEvent.before.segments = <<>>)
     => \A i \in 1..Len(lastEvent.snapshot) :
          lastEvent.snapshot[i].id = lastEvent.id
====
